---- MODULE Spec2Model ----
(***************************************************************************)
(* Model of the PTT crawler (src/source/ptt/main.py): the resumable        *)
(* page-by-page crawl of PttCrawler.fetch, its disk checkpoint             *)
(* (PttCrawler.Cache), the per-post extraction (PttRecord) and the         *)
(* per-page CSV files (__save_page_records).                               *)
(*                                                                         *)
(* Text is modelled as a sequence of tokens (a URL, a title) or of         *)
(* characters (a post body), so that concatenation, strip, the regular     *)
(* expressions and a partially written file are what they are in the code. *)
(***************************************************************************)
EXTENDS Integers, Sequences, FiniteSets, TLC

\* ------------------------------------------------------------------ bounds

\* The number of crawler processes started in one behaviour (first run + re-runs).
MaxRuns == 3

\* The longest title, in tokens, and the longest text node of a body, in
\* characters, that the extraction is applied to.
MaxTitleLen == 3
MaxTextLen == 5

\* ------------------------------------------------------- program constants

URL_PREFIX == <<"http://www.ptt.cc">>
INDEX_SUFFIX == <<"/index", "979", ".html">>
PAGES == 100
board_name == <<"photo-buy">>

\* SAVED_CSV % tag
SAVED_CSV(tag) == <<"records/", tag, ".csv">>

\* ------------------------------------------------------------ text helpers

Range(s) == {s[k] : k \in 1..Len(s)}
Min(S) == CHOOSE x \in S : \A y \in S : x <= y
Max(S) == CHOOSE x \in S : \A y \in S : x >= y
Prefix(s, k) == SubSeq(s, 1, k)

Whitespace == {" ", "\n"}
DigitChars == {"0", "1", "2", "3", "4", "5", "6", "7", "8", "9"}
\* The digit runs a URL of the modelled site can hold (one token per run).
DigitTokens == {"979", "978", "977", "976"}

\* str.strip(): the text without its leading and trailing whitespace.
Strip(s) ==
    LET keep == {k \in 1..Len(s) : s[k] \notin Whitespace}
    IN  IF keep = {} THEN <<>> ELSE SubSeq(s, Min(keep), Max(keep))

\* str.split()[0]: the first whitespace-delimited token; <<>> stands for the
\* IndexError of an all-whitespace text.
SplitFirst(s) ==
    LET t == Strip(s)
        ws == {k \in 1..Len(t) : t[k] \in Whitespace}
    IN  IF t = <<>> THEN <<>>
        ELSE IF ws = {} THEN t ELSE SubSeq(t, 1, Min(ws) - 1)

\* " ".join(nodes)
RECURSIVE Join(_)
Join(nodes) ==
    IF nodes = <<>> THEN <<>>
    ELSE IF Len(nodes) = 1 THEN nodes[1]
    ELSE nodes[1] \o <<" ">> \o Join(Tail(nodes))

\* str.rfind(c): the last index of c, 0-based, or -1.
RFind(s, c) ==
    LET at == {k \in 1..Len(s) : s[k] = c}
    IN  IF at = {} THEN -1 ELSE Max(at) - 1

DigitVal(c) ==
    CASE c = "0" -> 0 [] c = "1" -> 1 [] c = "2" -> 2 [] c = "3" -> 3
      [] c = "4" -> 4 [] c = "5" -> 5 [] c = "6" -> 6 [] c = "7" -> 7
      [] c = "8" -> 8 [] c = "9" -> 9

DigitChar(d) ==
    CASE d = 0 -> "0" [] d = 1 -> "1" [] d = 2 -> "2" [] d = 3 -> "3"
      [] d = 4 -> "4" [] d = 5 -> "5" [] d = 6 -> "6" [] d = 7 -> "7"
      [] d = 8 -> "8" [] d = 9 -> "9"

\* int(text) of a digit string.
RECURSIVE ParseInt(_)
ParseInt(s) ==
    IF s = <<>> THEN 0
    ELSE 10 * ParseInt(SubSeq(s, 1, Len(s) - 1)) + DigitVal(s[Len(s)])

\* str(n) of a natural number, as csv.writer formats an int field.
RECURSIVE FormatInt(_)
FormatInt(n) ==
    IF n < 10 THEN <<DigitChar(n)>>
    ELSE FormatInt(n \div 10) \o <<DigitChar(n % 10)>>

\* re.search("(\\d+00)", content).group(0): the leftmost match, \d+ greedy;
\* <<>> stands for no match (re.search returned None).
PriceMatches(s, i, j) ==
    /\ i + 2 <= j
    /\ j <= Len(s)
    /\ \A k \in i..j : s[k] \in DigitChars
    /\ s[j - 1] = "0"
    /\ s[j] = "0"

PriceSearch(s) ==
    LET starts == {i \in 1..Len(s) : \E j \in 1..Len(s) : PriceMatches(s, i, j)}
    IN  IF starts = {} THEN <<>>
        ELSE LET i == Min(starts)
                 j == Max({e \in 1..Len(s) : PriceMatches(s, i, e)})
             IN  SubSeq(s, i, j)

\* re.search("(\\d+).html", url).group(1) on a tokenised URL: the first digit
\* run that is followed by ".html"; "" stands for no match.
TagSearch(url) ==
    LET at == {k \in 1..Len(url) - 1 : url[k] \in DigitTokens /\ url[k + 1] = ".html"}
    IN  IF at = {} THEN "" ELSE url[Min(at)]

\* ------------------------------------------------- Record and PttRecord

\* Record.__init__ and Record.serialized: the fields, in the order of a CSV row.
Record(name, price, source, author, date, url) ==
    [name |-> name, price |-> price, source |-> source, author |-> author,
     date |-> date, url |-> url]

\* One row of csv.writer.writerow(record.serialized): the int price is written
\* in decimal, the other fields as their text.
Serialized(r) == <<r.name, FormatInt(r.price), r.source, r.author, r.date, r.url>>

NoRecord == Record(<<>>, 0, "", <<>>, <<>>, <<>>)
Raised(exc, msg) == [exc |-> exc, msg |-> msg, record |-> NoRecord]
Returned(r) == [exc |-> "", msg |-> "", record |-> r]

\* dateutil.parser.parse on the date texts of the modelled posts: a calendar
\* timestamp, or <<>> for a text it cannot parse (ValueError).
ParseDate(text) ==
    CASE text = <<"Sat", " ", "Nov", " ", "5", " ", "2016">> -> <<"2016", "-", "11", "-", "05">>
      [] text = <<"Sun", " ", "Nov", " ", "6", " ", "2016">> -> <<"2016", "-", "11", "-", "06">>
      [] OTHER -> <<>>

\* The sale marker u"\u51fa\u552e" and the full-width bracket u"\uff3d" of
\* PttRecord.__format_name, each one token of a title.
SaleMarker == "U+51FA U+552E"
FullWidthBracket == "U+FF3D"

\* PttRecord.__format_name without the test for a reply title.
FormatNameKeepsReplies(name) ==
    IF SaleMarker \notin Range(name)
    THEN [exc |-> "PttRecordException", msg |-> "Not a sale post", name |-> <<>>]
    ELSE [exc |-> "", msg |-> "",
          name |-> Strip(SubSeq(name, Max({RFind(name, "]"), RFind(name, FullWidthBracket)}) + 2,
                                Len(name)))]

\* str.find: the position of the first c in s, counted from 0, or -1.
Find(s, c) ==
    LET at == {k \in 1..Len(s) : s[k] = c}
    IN  IF at = {} THEN -1 ELSE Min(at) - 1

\* PttRecord.__format_name cutting at the first closing bracket (find for rfind).
FormatNameFirstBracket(name) ==
    IF SaleMarker \notin Range(name)
    THEN [exc |-> "PttRecordException", msg |-> "Not a sale post", name |-> <<>>]
    ELSE IF Len(name) > 0 /\ name[1] = "Re:"
    THEN [exc |-> "PttRecordException", msg |-> "Not an original post", name |-> <<>>]
    ELSE [exc |-> "", msg |-> "",
          name |-> Strip(SubSeq(name, Max({Find(name, "]"), Find(name, FullWidthBracket)}) + 2,
                                Len(name)))]

\* PttRecord.__format_name looking for the ASCII bracket only.
FormatNameAsciiBracket(name) ==
    IF SaleMarker \notin Range(name)
    THEN [exc |-> "PttRecordException", msg |-> "Not a sale post", name |-> <<>>]
    ELSE IF Len(name) > 0 /\ name[1] = "Re:"
    THEN [exc |-> "PttRecordException", msg |-> "Not an original post", name |-> <<>>]
    ELSE [exc |-> "", msg |-> "",
          name |-> Strip(SubSeq(name, RFind(name, "]") + 2, Len(name)))]

\* PttRecord.__format_name
FormatName(name) ==
    IF SaleMarker \notin Range(name)
    THEN [exc |-> "PttRecordException", msg |-> "Not a sale post", name |-> <<>>]
    ELSE IF Len(name) > 0 /\ name[1] = "Re:"
    THEN [exc |-> "PttRecordException", msg |-> "Not an original post", name |-> <<>>]
    ELSE [exc |-> "", msg |-> "",
          name |-> Strip(SubSeq(name, Max({RFind(name, "]"), RFind(name, FullWidthBracket)}) + 2,
                                Len(name)))]

\* PttRecord.__init__ with the price extracted before the name.
PttRecordPriceFirst(dom, url) ==
    IF Len(dom.main) = 0 THEN Raised("IndexError", "main-content")
    ELSE IF Len(dom.header) < 2 THEN Raised("IndexError", "header[1]")
    ELSE
    LET content == Join(dom.main[1])
        fname == FormatName(dom.header[2])
    IN  IF PriceSearch(content) = <<>> THEN Raised("AttributeError", "group")
        ELSE IF ParseInt(PriceSearch(content)) = 0
             THEN Raised("PttRecordException", "Invalid price")
        ELSE IF fname.exc # "" THEN Raised(fname.exc, fname.msg)
        ELSE IF SplitFirst(dom.header[1]) = <<>> THEN Raised("IndexError", "author")
        ELSE IF Len(dom.header) < 3 THEN Raised("IndexError", "header[2]")
        ELSE IF ParseDate(dom.header[3]) = <<>> THEN Raised("ValueError", "date")
        ELSE Returned(Record(fname.name, ParseInt(PriceSearch(content)), "ptt",
                             SplitFirst(dom.header[1]), ParseDate(dom.header[3]), url))

\* PttRecord.__init__(dom, url): the Record constructed, or the exception raised.
\* dom.header is the list selected by ".article-metaline .article-meta-value",
\* dom.main the list selected by "#main-content", each element the list of its
\* own top-level text nodes.
PttRecord(dom, url) ==
    IF Len(dom.main) = 0 THEN Raised("IndexError", "main-content")
    ELSE IF Len(dom.header) < 2 THEN Raised("IndexError", "header[1]")
    ELSE
    LET content == Join(dom.main[1])
        fname == FormatName(dom.header[2])
    IN  IF fname.exc # "" THEN Raised(fname.exc, fname.msg)
        ELSE IF SplitFirst(dom.header[1]) = <<>> THEN Raised("IndexError", "author")
        ELSE IF Len(dom.header) < 3 THEN Raised("IndexError", "header[2]")
        ELSE IF ParseDate(dom.header[3]) = <<>> THEN Raised("ValueError", "date")
        ELSE IF PriceSearch(content) = <<>> THEN Raised("AttributeError", "group")
        ELSE IF ParseInt(PriceSearch(content)) = 0
             THEN Raised("PttRecordException", "Invalid price")
        ELSE Returned(Record(fname.name, ParseInt(PriceSearch(content)), "ptt",
                             SplitFirst(dom.header[1]), ParseDate(dom.header[3]), url))

\* ------------------------------------------------------- the crawled site
\* What requests.get and BeautifulSoup return for the URLs of the modelled board.
\* A behaviour crawls one site; the site differs in how its oldest listing page
\* ends the chain of "previous page" links.

SiteEnds == {"loop", "oldest", "untagged"}

ListingHref(n) == <<"/bbs/">> \o board_name \o <<"/index", n, ".html">>
UntaggedHref == <<"/bbs/">> \o board_name \o <<"/index", ".html">>
PostHref(id) == <<"/bbs/">> \o board_name \o <<"/M.", id, ".html">>

\* A listing row (div.r-ent) with its link, or without one (a deleted post).
Row(href) == [a |-> TRUE, href |-> href]
RowNoLink == [a |-> FALSE, href |-> <<>>]
\* An anchor of the paging control, with or without an href attribute.
Anchor(href) == [has_href |-> TRUE, href |-> href]
AnchorDisabled == [has_href |-> FALSE, href |-> <<>>]
ListingPage(rows, paging) == [rows |-> rows, paging |-> paging]
Paging(prev) == <<Anchor(ListingHref("976")), prev, AnchorDisabled, Anchor(UntaggedHref)>>

DateSat == <<"Sat", " ", "Nov", " ", "5", " ", "2016">>
DateSun == <<"Sun", " ", "Nov", " ", "6", " ", "2016">>
SaleTitle(item) == <<"[", SaleMarker, "/", "Taipei", "]", " ">> \o item
PostDoc(header, main) == [header |-> header, main |-> main]

PostIds == {"A", "B", "C", "D", "E", "F", "H"}
\* The posts that cannot be fetched (requests.get raises).
PostsUnreachable == {"E"}

Post(id) ==
    CASE id = "A" -> \* a valid offer at 1500
            PostDoc(<<<<"alice", " ", "(Alice)">>, SaleTitle(<<"Nikon", " ", "FM2">>), DateSat>>,
                    << << <<"N", "T", " ", "1", "5", "0", "0">> >> >>)
      [] id = "B" -> \* a reply
            PostDoc(<<<<"bob">>, <<"Re:", " ">> \o SaleTitle(<<"Nikon", " ", "FM2">>), DateSun>>,
                    << << <<"1", "4", "0", "0">> >> >>)
      [] id = "C" -> \* price 0
            PostDoc(<<<<"carol">>, SaleTitle(<<"Leica", " ", "M6">>), DateSun>>,
                    << << <<"0", "0", "0">> >> >>)
      [] id = "D" -> \* no price token
            PostDoc(<<<<"dave">>, SaleTitle(<<"Canon", " ", "AE-1">>), DateSat>>,
                    << << <<"c", "a", "l", "l">> >> >>)
      [] id = "F" -> \* the date row is missing
            PostDoc(<<<<"frank">>, SaleTitle(<<"Pentax">>)>>,
                    << << <<"9", "0", "0">> >> >>)
      [] id = "H" -> \* a valid offer, two price tokens in two text nodes
            PostDoc(<<<<"heidi", " ", "(H)">>, SaleTitle(<<"Olympus", " ", "OM-1">>), DateSun>>,
                    << << <<"4", "5", "0", "0">>, <<"1", "0", "0">> >> >>)
      [] OTHER -> PostDoc(<<>>, <<>>)

\* The listing pages of the site, by absolute URL.
ListingUrls(end) ==
    {URL_PREFIX \o ListingHref(n) : n \in DigitTokens}
        \cup (IF end = "untagged" THEN {URL_PREFIX \o UntaggedHref} ELSE {})

Listing(end, url) ==
    CASE url = URL_PREFIX \o ListingHref("979") ->
            ListingPage(<<Row(PostHref("A")), Row(PostHref("B")), Row(PostHref("C"))>>,
                        Paging(Anchor(ListingHref("978"))))
      [] url = URL_PREFIX \o ListingHref("978") ->
            ListingPage(<<RowNoLink, Row(PostHref("H")), Row(PostHref("D")), Row(PostHref("H"))>>,
                        Paging(Anchor(ListingHref("977"))))
      [] url = URL_PREFIX \o ListingHref("977") ->
            ListingPage(<<Row(PostHref("E")), Row(PostHref("F"))>>,
                        Paging(Anchor(ListingHref("976"))))
      [] url = URL_PREFIX \o ListingHref("976") ->
            ListingPage(<<RowNoLink>>,
                        Paging(CASE end = "loop" -> Anchor(ListingHref("976"))
                                 [] end = "oldest" -> AnchorDisabled
                                 [] OTHER -> Anchor(UntaggedHref)))
      [] OTHER -> \* the page /index.html of the "untagged" site
            ListingPage(<<Row(PostHref("A"))>>, Paging(Anchor(ListingHref("979"))))

\* ------------------------------------------------------ PttCrawler helpers

\* The root listing URL of fetch: URL_PREFIX + "/bbs/" + board_name + INDEX_SUFFIX.
RootUrl == URL_PREFIX \o <<"/bbs/">> \o board_name \o INDEX_SUFFIX

\* None, and a path that is no file.
None == <<"None">>
NoFile == <<"ENOENT">>

\* Faulty variant of CacheInit: the cache file is never read.
CacheInitIgnoresFile(file) == None

\* Cache.__init__: the value of __next_page for the content of the cache file.
CacheInit(file) == IF file # NoFile THEN Strip(file) ELSE None

\* Cache.is_cached
IsCached(np) == np # None

\* Faulty variant of StartUrl: the checkpoint is ignored.
StartUrlIgnoresCache(np) == RootUrl

\* fetch: the starting url.
StartUrl(np) == IF IsCached(np) THEN np ELSE RootUrl

\* __get_dom + __fetch_page_urls(url): the hrefs of the rows that have a link, in
\* row order, and the href of the second paging anchor; or the exception raised.
\* net is FALSE when requests.get fails.
FetchPageUrls(end, url, net) ==
    IF ~net \/ url \notin ListingUrls(end)
    THEN [exc |-> "RequestException", next_page_url |-> <<>>, page_post_urls |-> <<>>]
    ELSE LET dom == Listing(end, url)
             linked == SelectSeq(dom.rows, LAMBDA row : row.a)
             urls == [k \in 1..Len(linked) |-> linked[k].href]
         IN  IF Len(dom.paging) < 2
             THEN [exc |-> "IndexError", next_page_url |-> <<>>, page_post_urls |-> <<>>]
             ELSE IF ~dom.paging[2].has_href
             THEN [exc |-> "KeyError", next_page_url |-> <<>>, page_post_urls |-> <<>>]
             ELSE [exc |-> "", next_page_url |-> dom.paging[2].href, page_post_urls |-> urls]

\* __fetch_post(post_url): the Record of PttRecord(__get_dom(post_url), post_url),
\* or the exception raised by the fetch or by the extraction.
FetchPostResult(post_url) ==
    LET ids == {id \in PostIds : URL_PREFIX \o PostHref(id) = post_url}
    IN  IF ids = {} \/ ids \subseteq PostsUnreachable
        THEN Raised("RequestException", "get")
        ELSE PttRecord(Post(CHOOSE id \in ids : TRUE), post_url)

\* The except clauses of __fetch_page_records: AttributeError, PttRecordException,
\* and Exception, which every exception class raised here derives from.
ExceptionClasses ==
    {"AttributeError", "PttRecordException", "IndexError", "KeyError", "ValueError",
     "RequestException"}
\* Faulty variant of IsCaught: no catch-all except clause.
IsCaughtDeclaredOnly(exc) ==
    \/ exc = "AttributeError"
    \/ exc = "PttRecordException"

IsCaught(exc) ==
    \/ exc = "AttributeError"
    \/ exc = "PttRecordException"
    \/ exc \in ExceptionClasses

\* __parge_page_tag(url); "" stands for the AttributeError of a url without a
\* page number.
ParsePageTag(url) == TagSearch(url)

\* __save_page_records: the file name for a tag.
Filename(tag) == IF tag # "" THEN SAVED_CSV(tag) ELSE <<"records/", "%s", ".csv">>

\* Faulty variant of OpenForWrite: mode "a", the old content is kept.
OpenForAppend(old) == old

\* open(filename, "w") on a file with content old: the file is truncated.
OpenForWrite(old) == <<>>

\* The rows of a CSV file on disk (none when there is no such file), and
\* os.path.isfile for it.
ReadFile(fs, filename) == IF filename \in DOMAIN fs THEN fs[filename] ELSE <<>>
IsFile(fs, filename) == filename \in DOMAIN fs

\* The rows writer.writerow writes for page_records.
Rows(page_records) == [k \in 1..Len(page_records) |-> Serialized(page_records[k])]

\* ------------------------------------------------------------------- state

VARIABLES
    site,           \* the site crawled (how its oldest page ends)
    cache_file,     \* disk: the content of Cache.CACHE_FILE, or NoFile
    records,        \* disk: the CSV files, file name -> rows
    pc,             \* where the crawler process is
    next_page,      \* Cache.__next_page
    page_url,       \* fetch: page_url
    next_page_url,  \* fetch: next_page_url
    post_urls,      \* fetch: the queue post_urls
    page_records,   \* __fetch_page_records: page_records
    iter,           \* the iterations of range(PAGES) completed
    raised,         \* the exception that left fetch: [at, exc]
    runs,           \* the processes started so far
    walked,         \* history: the page urls this run walked, in order
    saved,          \* history: the page urls whose save this run completed
    attempts,       \* history: the post urls attempted for the current page
    run_urls,       \* history: the urls of the Records this run constructed
    page_start,     \* history: the checkpoint when the current page began
    resume,         \* history: what the crash that preceded this run interrupted
    prev_end,       \* history: how the run before this one ended (its last pc)
    dom,            \* extraction: the post document given to PttRecord
    extracted       \* extraction: what PttRecord(dom, url) returned or raised

vars == <<site, cache_file, records, pc, next_page, page_url, next_page_url, post_urls,
          page_records, iter, raised, runs, walked, saved, attempts, run_urls,
          page_start, resume, prev_end, dom, extracted>>

extraction == <<dom, extracted>>
disk == <<cache_file, records>>
memory == <<next_page, page_url, next_page_url, post_urls, page_records, iter>>
history == <<walked, saved, attempts, run_urls, page_start>>

NotRaised == [at |-> "", exc |-> ""]
\* No document, and no extraction made yet.
NoDom == PostDoc(<<>>, <<>>)
Pending == [exc |-> "pending", msg |-> "", record |-> NoRecord]
NoResume == [pc |-> "", page_url |-> <<>>, rows |-> <<>>, writing |-> <<>>]
Running == {"walk", "records", "save", "advance", "cache"}

\* No crawler process has run yet: nothing on disk, nothing in memory.
CrawlerIdle ==
    /\ cache_file = NoFile
    /\ records = <<>>
    /\ pc = "idle"
    /\ next_page = None
    /\ page_url = <<>>
    /\ next_page_url = <<>>
    /\ post_urls = <<>>
    /\ page_records = <<>>
    /\ iter = 0
    /\ raised = NotRaised
    /\ runs = 0
    /\ walked = <<>>
    /\ saved = {}
    /\ attempts = <<>>
    /\ run_urls = <<>>
    /\ page_start = [disk |-> NoFile, mem |-> None]
    /\ resume = NoResume
    /\ prev_end = ""

Init ==
    /\ site \in SiteEnds
    /\ CrawlerIdle
    /\ dom = NoDom
    /\ extracted = Pending

\* main(): PttCrawler("photo-buy") constructs the Cache, fetch picks the starting url.
StartRun ==
    /\ pc \in {"idle", "crashed", "returned", "raised"}
    /\ runs < MaxRuns
    /\ runs' = runs + 1
    /\ next_page' = CacheInit(cache_file)
    /\ page_url' = StartUrl(CacheInit(cache_file))
    /\ next_page_url' = <<>>
    /\ post_urls' = <<>>
    /\ page_records' = <<>>
    /\ iter' = 0
    /\ raised' = NotRaised
    /\ pc' = "walk"
    /\ walked' = <<>>
    /\ saved' = {}
    /\ attempts' = <<>>
    /\ run_urls' = <<>>
    /\ page_start' = [disk |-> cache_file, mem |-> CacheInit(cache_file)]
    /\ resume' = IF pc = "crashed" THEN resume ELSE NoResume
    /\ prev_end' = pc
    /\ UNCHANGED <<site, extraction, disk>>

\* fetch, lines 164-167: the page walk succeeds and its urls are queued.
WalkPage ==
    /\ pc = "walk"
    /\ LET r == FetchPageUrls(site, page_url, TRUE)
       IN  /\ r.exc = ""
           /\ next_page_url' = r.next_page_url
           /\ post_urls' = r.page_post_urls
    /\ page_records' = <<>>
    /\ attempts' = <<>>
    /\ walked' = Append(walked, page_url)
    /\ pc' = "records"
    /\ UNCHANGED <<site, extraction, prev_end, disk, next_page, page_url, iter, raised, runs, saved, run_urls,
                   page_start, resume>>

\* Faulty variant of WalkPageRaises: the exception is caught and fetch returns.
WalkPageSwallowsError ==
    /\ pc = "walk"
    /\ \E net \in BOOLEAN :
         LET r == FetchPageUrls(site, page_url, net)
         IN  /\ r.exc # ""
             /\ raised' = [at |-> "walk", exc |-> r.exc]
    /\ walked' = Append(walked, page_url)
    /\ pc' = "returned"
    /\ UNCHANGED <<site, extraction, prev_end, disk, memory, runs, saved, attempts, run_urls, page_start, resume>>

\* fetch, line 165: __fetch_page_urls raises and the exception leaves fetch.
WalkPageRaises ==
    /\ pc = "walk"
    /\ \E net \in BOOLEAN :
         LET r == FetchPageUrls(site, page_url, net)
         IN  /\ r.exc # ""
             /\ raised' = [at |-> "walk", exc |-> r.exc]
    /\ walked' = Append(walked, page_url)
    /\ pc' = "raised"
    /\ UNCHANGED <<site, extraction, prev_end, disk, memory, runs, saved, attempts, run_urls, page_start, resume>>

\* __fetch_page_records: one iteration of its while loop.
FetchPost ==
    /\ pc = "records"
    /\ post_urls # <<>>
    /\ LET post_url == URL_PREFIX \o Head(post_urls)
           r == FetchPostResult(post_url)
       IN  /\ post_urls' = Tail(post_urls)
           /\ attempts' = Append(attempts, post_url)
           /\ IF r.exc = ""
              THEN /\ page_records' = Append(page_records, r.record)
                   /\ run_urls' = Append(run_urls, r.record.url)
                   /\ UNCHANGED <<pc, raised>>
              ELSE IF IsCaught(r.exc)
              THEN UNCHANGED <<page_records, run_urls, pc, raised>>
              ELSE /\ pc' = "raised"
                   /\ raised' = [at |-> "post", exc |-> r.exc]
                   /\ UNCHANGED <<page_records, run_urls>>
    /\ UNCHANGED <<site, extraction, prev_end, disk, next_page, page_url, next_page_url, iter, runs, walked,
                   saved, page_start, resume>>

\* Faulty variant of SaveOpen: the checkpoint is written before the save.
SaveOpenCheckpointFirst ==
    /\ pc = "records"
    /\ post_urls = <<>>
    /\ ParsePageTag(page_url) # ""
    /\ LET filename == Filename(ParsePageTag(page_url))
           old == IF filename \in DOMAIN records THEN records[filename] ELSE <<>>
       IN  records' = (filename :> OpenForWrite(old)) @@ records
    /\ next_page' = URL_PREFIX \o next_page_url
    /\ cache_file' = URL_PREFIX \o next_page_url
    /\ pc' = "save"
    /\ UNCHANGED <<site, extraction, prev_end, page_url, next_page_url, post_urls, page_records, iter, raised,
                   runs, history, resume>>

\* Faulty variant of SaveOpen: no file is opened for an empty batch.
SaveOpenSkipsEmptyBatch ==
    /\ pc = "records"
    /\ post_urls = <<>>
    /\ ParsePageTag(page_url) # ""
    /\ LET filename == Filename(ParsePageTag(page_url))
           old == IF filename \in DOMAIN records THEN records[filename] ELSE <<>>
       IN  records' = IF page_records = <<>> THEN records
                      ELSE (filename :> OpenForWrite(old)) @@ records
    /\ pc' = "save"
    /\ UNCHANGED <<site, extraction, prev_end, cache_file, memory, raised, runs, history, resume>>

\* fetch, lines 173-174 and __save_page_records, lines 239-241: the queue is
\* drained, the tag is parsed and the page's file is opened for writing.
SaveOpen ==
    /\ pc = "records"
    /\ post_urls = <<>>
    /\ ParsePageTag(page_url) # ""
    /\ LET filename == Filename(ParsePageTag(page_url))
           old == IF filename \in DOMAIN records THEN records[filename] ELSE <<>>
       IN  records' = (filename :> OpenForWrite(old)) @@ records
    /\ pc' = "save"
    /\ UNCHANGED <<site, extraction, prev_end, cache_file, memory, raised, runs, history, resume>>

\* fetch, line 174: __parge_page_tag finds no page number (AttributeError).
ParsePageTagRaises ==
    /\ pc = "records"
    /\ post_urls = <<>>
    /\ ParsePageTag(page_url) = ""
    /\ pc' = "raised"
    /\ raised' = [at |-> "tag", exc |-> "AttributeError"]
    /\ UNCHANGED <<site, extraction, prev_end, disk, memory, runs, history, resume>>

\* __save_page_records, line 241: open raises (no directory, no permission).
SaveOpenRaises ==
    /\ pc = "records"
    /\ post_urls = <<>>
    /\ ParsePageTag(page_url) # ""
    /\ pc' = "raised"
    /\ raised' = [at |-> "save", exc |-> "OSError"]
    /\ UNCHANGED <<site, extraction, prev_end, disk, memory, runs, history, resume>>

\* __save_page_records, lines 242-246: every row is written and the file closed.
SaveWrite ==
    /\ pc = "save"
    /\ LET filename == Filename(ParsePageTag(page_url))
       IN  records' = [records EXCEPT ![filename] = @ \o Rows(page_records)]
    /\ saved' = saved \cup {page_url}
    /\ pc' = "advance"
    /\ UNCHANGED <<site, extraction, prev_end, cache_file, memory, raised, runs, walked, attempts, run_urls,
                   page_start, resume>>

\* __save_page_records, lines 242-244: a write raises (disk full) after k rows.
SaveWriteRaises ==
    /\ pc = "save"
    /\ \E k \in 0..(Len(page_records) - 1) :
         LET filename == Filename(ParsePageTag(page_url))
         IN  records' = [records EXCEPT ![filename] = @ \o Prefix(Rows(page_records), k)]
    /\ pc' = "raised"
    /\ raised' = [at |-> "save", exc |-> "OSError"]
    /\ UNCHANGED <<site, extraction, prev_end, cache_file, memory, runs, history, resume>>

\* fetch, line 177 and Cache.write_next_page, lines 127-128: page_url becomes the
\* next page, __next_page is set and the cache file is opened (truncated).
WriteNextPageOpen ==
    /\ pc = "advance"
    /\ page_url' = URL_PREFIX \o next_page_url
    /\ next_page' = URL_PREFIX \o next_page_url
    /\ cache_file' = OpenForWrite(cache_file)
    /\ pc' = "cache"
    /\ UNCHANGED <<site, extraction, prev_end, records, next_page_url, post_urls, page_records, iter, raised,
                   runs, history, resume>>

\* Cache.write_next_page, line 129: the url is written and the file closed; the
\* loop of fetch goes to its next iteration, or fetch returns.
WriteNextPage ==
    /\ pc = "cache"
    /\ cache_file' = cache_file \o next_page
    /\ iter' = iter + 1
    /\ pc' = IF iter + 1 < PAGES THEN "walk" ELSE "returned"
    /\ page_start' = [disk |-> cache_file', mem |-> next_page]
    /\ UNCHANGED <<site, extraction, prev_end, records, next_page, page_url, next_page_url, post_urls,
                   page_records, raised, runs, walked, saved, attempts, run_urls, resume>>

\* Cache.write_next_page, line 129: the write raises (disk full) after k tokens.
WriteNextPageRaises ==
    /\ pc = "cache"
    /\ \E k \in 0..(Len(next_page) - 1) : cache_file' = cache_file \o Prefix(next_page, k)
    /\ pc' = "raised"
    /\ raised' = [at |-> "cache", exc |-> "OSError"]
    /\ UNCHANGED <<site, extraction, prev_end, records, memory, runs, history, resume>>

\* The process is killed. Its memory is lost; a file it was writing keeps what had
\* reached the disk, any prefix of what was to be written.
Crash ==
    /\ pc \in Running
    /\ resume' = [pc |-> pc,
                  page_url |-> IF pc = "walk" THEN page_url ELSE walked[Len(walked)],
                  rows |-> IF pc = "advance"
                           THEN ReadFile(records, Filename(ParsePageTag(page_url)))
                           ELSE <<>>,
                  writing |-> IF pc = "cache" THEN next_page ELSE <<>>]
    /\ IF pc = "save"
       THEN \E k \in 0..Len(page_records) :
              LET filename == Filename(ParsePageTag(page_url))
              IN  records' = [records EXCEPT ![filename] = @ \o Prefix(Rows(page_records), k)]
       ELSE UNCHANGED records
    /\ IF pc = "cache"
       THEN \E k \in 0..Len(next_page) : cache_file' = cache_file \o Prefix(next_page, k)
       ELSE UNCHANGED cache_file
    /\ pc' = "crashed"
    /\ next_page' = None
    /\ page_url' = <<>>
    /\ next_page_url' = <<>>
    /\ post_urls' = <<>>
    /\ page_records' = <<>>
    /\ iter' = 0
    /\ walked' = <<>>
    /\ saved' = {}
    /\ attempts' = <<>>
    /\ run_urls' = <<>>
    /\ UNCHANGED <<site, extraction, prev_end, raised, runs, page_start>>

Next ==
    \/ StartRun
    \/ WalkPage
    \/ WalkPageRaises
    \/ FetchPost
    \/ SaveOpen
    \/ ParsePageTagRaises
    \/ SaveOpenRaises
    \/ SaveWrite
    \/ SaveWriteRaises
    \/ WriteNextPageOpen
    \/ WriteNextPage
    \/ WriteNextPageRaises
    \/ Crash

Spec == Init /\ [][Next]_vars

\* ------------------------------------------- the extraction, applied alone
\* PttRecord applied to every post document of a bounded set: every title over
\* the tokens __format_name looks at, with a few authors, dates and bodies, and
\* every body of one text node over a few characters, alone or followed
\* by a second node, with a good title.

SeqsUpTo(S, n) == UNION {[1..k -> S] : k \in 0..n}

TitleTokens == {"Re:", " ", "]", FullWidthBracket, SaleMarker, "EOS"}
BodyChars == {"0", "5", "x"}

\* "[Selling][Canon] <sale marker> EOS 5D Mark III"
TitleSellingCanon ==
    <<"[", "Selling", "]", "[", "Canon", "]", " ", SaleMarker, " ",
      "EOS", " ", "5D", " ", "Mark", " ", "III">>
\* "price 4500 and also 100"
BodyTwoPrices ==
    <<"p", "r", "i", "c", "e", " ", "4", "5", "0", "0", " ", "a", "n", "d", " ",
      "a", "l", "s", "o", " ", "1", "0", "0">>

Titles ==
    SeqsUpTo(TitleTokens, MaxTitleLen)
        \cup {TitleSellingCanon, SaleTitle(<<"Nikon", " ", "FM2">>)}
Texts == SeqsUpTo(BodyChars, MaxTextLen) \cup {BodyTwoPrices}
\* Text nodes that follow another one in the same body.
LaterTexts == {<<"0", "0", "0">>, <<"5", "0", "0">>, <<"x">>}

AuthorTexts == {<<"alice", " ", "(Alice)">>, <<" ">>}
DateTexts == {DateSat, <<"soon">>}
\* The elements selected by "#main-content": none, or one with its text nodes.
FewMains ==
    {<<>>, << <<<<"1", "5", "0", "0">>>> >>, << <<<<"c", "a", "l", "l">>>> >>,
     << <<<<"0", "0", "0">>>> >>}

ExtractInputs ==
    {PostDoc(<<a, t>>, m) : a \in AuthorTexts, t \in Titles, m \in FewMains}
        \cup {PostDoc(<<a, t, d>>, m) :
                a \in AuthorTexts, t \in Titles, d \in DateTexts, m \in FewMains}
        \cup {PostDoc(<<<<"alice">>, SaleTitle(<<"Nikon">>), DateSat>>, << <<x>> >>) :
                x \in Texts}
        \cup {PostDoc(<<<<"alice">>, SaleTitle(<<"Nikon">>), DateSat>>, << <<x, y>> >>) :
                x \in Texts, y \in LaterTexts}

PostUrl == URL_PREFIX \o PostHref("A")

InitExtract ==
    /\ site = "loop"
    /\ CrawlerIdle
    /\ dom \in ExtractInputs
    /\ extracted = Pending

\* __fetch_post, line 228: PttRecord(dom, post_url) for the fetched document.
Extract ==
    /\ extracted = Pending
    /\ extracted' = PttRecord(dom, PostUrl)
    /\ UNCHANGED <<site, cache_file, records, pc, next_page, page_url, next_page_url,
                   post_urls, page_records, iter, raised, runs, walked, saved, attempts,
                   run_urls, page_start, resume, prev_end, dom>>

NextExtract == Extract

SpecExtract == InitExtract /\ [][NextExtract]_vars

\* ------------------------------------------------------------------ claims

Url(n) == URL_PREFIX \o ListingHref(n)
PageFile(url) == ReadFile(records, Filename(ParsePageTag(url)))
PageFileExists(url) == IsFile(records, Filename(ParsePageTag(url)))
Last(seq) == seq[Len(seq)]

\* C1: the checkpoint never points past unsaved data: every page this run walked
\* before the page the cache file names has had its save completed and its file
\* is on disk. The page the cache file names is the walked page equal to it, or,
\* when the run has not walked it yet, the page after every walked page: a walked
\* page is saved, or it is not before the page the cache file names.
C1_CheckpointNeverPastUnsaved ==
    LET named == {m \in 1..Len(walked) : walked[m] = cache_file}
    IN  \A j \in 1..Len(walked) :
            \/ walked[j] \in saved /\ PageFileExists(walked[j])
            \/ ~ \/ \E m \in named : j < m
                 \/ named = {} /\ cache_file # NoFile

\* The run saved page 979 and its checkpoint names page 978, which it is walking.
C1_Witness ==
    /\ pc = "records"
    /\ walked = <<Url("979"), Url("978")>>
    /\ cache_file = Url("978")
    /\ Url("979") \in saved

\* C2: a run that follows a crash which happened while a page was processed,
\* before that page's checkpoint write, starts at that same page; and when the
\* crash came after the page's file was written, the file the re-run writes for
\* the page equals the one on disk at the crash.
C2_ResumeSamePageSameFile ==
    /\ (pc = "walk" /\ iter = 0 /\ resume.pc \in {"walk", "records", "save", "advance"})
           => page_url = resume.page_url
    /\ (pc = "advance" /\ iter = 0 /\ resume.pc = "advance")
           => /\ page_url = resume.page_url
              /\ PageFile(page_url) = resume.rows

\* A re-run has re-written the file of page 978, whose save preceded the crash.
C2_Witness ==
    /\ pc = "advance"
    /\ iter = 0
    /\ resume.pc = "advance"
    /\ page_url = Url("978")
    /\ Len(resume.rows) = 2

\* C3: the first page a run walks is the stored checkpoint when the cache file
\* exists, and is the listing root when and only when it does not exist.
C3_StartsAtCheckpoint ==
    (pc = "walk" /\ iter = 0)
        => /\ cache_file # NoFile => page_url = cache_file
           /\ page_url = RootUrl <=> cache_file = NoFile

\* A run starts at the checkpoint 977 that an earlier run left.
C3_Witness ==
    /\ pc = "walk"
    /\ iter = 0
    /\ runs = 2
    /\ cache_file = Url("977")
    /\ page_url = Url("977")

\* C4: no two Records constructed in one run share a url.
C4_NoTwoRecordsShareUrl ==
    \A a, b \in 1..Len(run_urls) : a # b => run_urls[a] # run_urls[b]

\* C5: a post whose fetch or extraction fails is skipped: the step that attempts
\* it leaves the batch, the disk and fetch's exception state as they were and
\* goes on with the rest of the queue; no exception of a post leaves fetch; and
\* a page that is saved has had every discovered post url attempted.
C5_PostFailureIsSkipped ==
    /\ [](raised.at # "post")
    /\ [](pc \in {"save", "advance", "cache"}
            => attempts = [k \in 1..Len(FetchPageUrls(site, Last(walked), TRUE).page_post_urls)
                             |-> URL_PREFIX \o FetchPageUrls(site, Last(walked), TRUE).page_post_urls[k]])
    /\ [][(/\ pc = "records"
           /\ post_urls # <<>>
           /\ FetchPostResult(URL_PREFIX \o Head(post_urls)).exc # ""
           /\ pc' # "crashed")
          => (/\ pc' = "records"
              /\ post_urls' = Tail(post_urls)
              /\ page_records' = page_records
              /\ raised' = raised
              /\ disk' = disk)]_vars

\* Page 977, whose two posts both fail (one fetch error, one missing date row),
\* was saved and the checkpoint advanced to page 976.
C5_Witness ==
    /\ pc = "walk"
    /\ walked # <<>>
    /\ Last(walked) = Url("977")
    /\ Len(attempts) = 2
    /\ page_records = <<>>
    /\ Url("977") \in saved
    /\ cache_file = Url("976")
    /\ page_url = Url("976")

\* C6: when the walk of a listing page raises, the exception leaves fetch, the
\* failing step writes no file, the cache file is the one the page began with,
\* and a run started next begins at that same page.
C6_WalkFailureIsFatal ==
    /\ [](raised.at = "walk"
            => /\ pc = "raised"
               /\ cache_file = page_start.disk
               /\ StartUrl(CacheInit(cache_file)) = page_url)
    /\ [][(pc = "walk" /\ raised'.at = "walk") => disk' = disk]_vars

\* The oldest page has no previous-page link: the walk raised after three pages.
C6_Witness ==
    /\ pc = "raised"
    /\ raised = [at |-> "walk", exc |-> "KeyError"]
    /\ page_url = Url("976")
    /\ Cardinality(saved) = 3

\* C7: when the save of a page's batch raises (the tag cannot be parsed, open or
\* a write raises), the exception leaves fetch and the cache file and
\* Cache.__next_page are what they were when the page began.
C7_SaveFailureLeavesCheckpoint ==
    raised.at \in {"save", "tag"}
        => /\ pc = "raised"
           /\ cache_file = page_start.disk
           /\ next_page = page_start.mem

\* A write of page 978's file raised after one row; the checkpoint is still 978.
C7_Witness ==
    /\ raised.at = "save"
    /\ page_url = Url("978")
    /\ PageFileExists(page_url)
    /\ Len(PageFile(page_url)) = 1
    /\ cache_file = Url("978")

\* C8: after a crash inside Cache.write_next_page the cache file holds the
\* complete previous value (or does not exist) or the complete new value.
C8_CheckpointWriteAtomic ==
    (pc = "crashed" /\ resume.pc = "cache")
        => cache_file \in {page_start.disk, resume.writing}

\* C9: a page with no Record still gets an (empty) file; the checkpoint write
\* follows its save, and once the checkpoint is written the cache file names the
\* next page and the loop walks it.
C9_EmptyPageStillSaved ==
    /\ []((pc = "advance" /\ page_records = <<>>)
            => PageFileExists(page_url) /\ PageFile(page_url) = <<>>)
    /\ [][(pc = "advance" /\ page_records = <<>>) => pc' \in {"cache", "crashed"}]_vars
    /\ [][(pc = "cache" /\ page_records = <<>> /\ pc' \notin {"crashed", "raised"})
          => (/\ cache_file' = URL_PREFIX \o next_page_url
              /\ page_url' = URL_PREFIX \o next_page_url
              /\ iter' = iter + 1
              /\ iter' < PAGES => pc' = "walk")]_vars

\* Page 977 (no valid offer) and page 976 (no post link) have empty files, and
\* the run is about to walk the page after 976.
C9_Witness ==
    /\ pc = "walk"
    /\ iter = 4
    /\ PageFileExists(Url("977")) /\ PageFile(Url("977")) = <<>>
    /\ PageFileExists(Url("976")) /\ PageFile(Url("976")) = <<>>
    /\ Url("976") \in saved
    /\ cache_file = page_url

\* The posts of a listing page whose extraction succeeds.
OfferedPosts(url) ==
    {h \in Range(FetchPageUrls(site, url, TRUE).page_post_urls) :
        FetchPostResult(URL_PREFIX \o h).exc = ""}

\* C10: after a page is saved, its file holds exactly one row for each post of
\* the page whose extraction succeeded, and no other row.
C10_OneRowPerOfferedPost ==
    pc = "advance"
        => /\ Len(PageFile(page_url)) = Cardinality(OfferedPosts(page_url))
           /\ \A h \in OfferedPosts(page_url) :
                \E k \in 1..Len(PageFile(page_url)) :
                    PageFile(page_url)[k] = Serialized(FetchPostResult(URL_PREFIX \o h).record)

\* ------------------------------------------------- claims on the extraction

\* The extraction has been applied to dom, a post page with a body element and
\* a title line.
Extracted == extracted # Pending
HasTitle == Len(dom.main) > 0 /\ Len(dom.header) >= 2
Title == dom.header[2]
Content == Join(dom.main[1])
NotASale == extracted = Raised("PttRecordException", "Not a sale post")
NotOriginal == extracted = Raised("PttRecordException", "Not an original post")

\* C11: a post whose title lacks the sale marker fails with the not-a-sale
\* failure and yields no Record, whatever its author, date and body are.
C11_NoMarkerIsNotASale ==
    Extracted /\ HasTitle /\ SaleMarker \notin Range(Title)
        => NotASale /\ extracted.record = NoRecord

\* A title without the marker on a post whose author is blank, whose date is
\* missing and whose body holds no price: it still fails as not-a-sale.
C11_Witness ==
    /\ Extracted /\ HasTitle
    /\ Title = <<"EOS", " ", "EOS">>
    /\ SplitFirst(dom.header[1]) = <<>>
    /\ Len(dom.header) = 2
    /\ PriceSearch(Content) = <<>>
    /\ NotASale

\* name.startswith("Re:")
IsReply == Len(Title) > 0 /\ Title[1] = "Re:"

\* C12 as stated: every title prefixed with "Re:", with or without the sale
\* marker, fails as not-an-original-post and yields no Record.
C12_EveryReplyIsNotOriginal ==
    Extracted /\ HasTitle /\ IsReply
        => NotOriginal /\ extracted.record = NoRecord

\* C12, amended: a title prefixed with "Re:" that holds the sale marker fails
\* as not-an-original-post; one that lacks the marker fails as not-a-sale,
\* the marker being tested first. Neither yields a Record.
C12_ReplyWithMarkerIsNotOriginal ==
    Extracted /\ HasTitle /\ IsReply
        => /\ extracted.record = NoRecord
           /\ IF SaleMarker \in Range(Title) THEN NotOriginal ELSE NotASale

\* A reply title that holds the marker, on a post whose other fields are all
\* good: it fails as not-an-original-post.
C12_Witness ==
    /\ Extracted /\ HasTitle
    /\ Title = <<"Re:", " ", SaleMarker>>
    /\ Len(dom.header) = 3 /\ ParseDate(dom.header[3]) # <<>>
    /\ SplitFirst(dom.header[1]) # <<>>
    /\ PriceSearch(Content) # <<>> /\ ParseInt(PriceSearch(Content)) > 0
    /\ NotOriginal

\* The numbers written in a text: its maximal runs of digits, as <<first, last>>
\* positions. A price token is a number of three or more digits that ends in
\* two zeros.
Numbers(s) ==
    {p \in (1..Len(s)) \X (1..Len(s)) :
        /\ p[1] <= p[2]
        /\ \A k \in p[1]..p[2] : s[k] \in DigitChars
        /\ p[1] = 1 \/ s[p[1] - 1] \notin DigitChars
        /\ p[2] = Len(s) \/ s[p[2] + 1] \notin DigitChars}
PriceTokens(s) ==
    {p \in Numbers(s) : p[2] - p[1] >= 2 /\ s[p[2] - 1] = "0" /\ s[p[2]] = "0"}
FirstPriceToken(s) ==
    LET p == CHOOSE q \in PriceTokens(s) : \A r \in PriceTokens(s) : q[1] <= r[1]
    IN  SubSeq(s, p[1], p[2])

\* C13: the price of a Record is the value of the first price token of the
\* post body; later tokens are ignored.
C13_PriceIsFirstToken ==
    Extracted /\ HasTitle /\ extracted.exc = ""
        => /\ PriceTokens(Content) # {}
           /\ extracted.record.price = ParseInt(FirstPriceToken(Content))

\* The body "price 4500 and also 100" gives 4500.
C13_TwoPricesGiveFirst ==
    Extracted /\ HasTitle /\ dom.main[1] = <<BodyTwoPrices>>
        => extracted.exc = "" /\ extracted.record.price = 4500

\* Title, author and date of the post are good: only the price decides.
OtherFieldsGood ==
    /\ FormatName(Title).exc = ""
    /\ SplitFirst(dom.header[1]) # <<>>
    /\ Len(dom.header) >= 3 /\ ParseDate(dom.header[3]) # <<>>
ZeroPrice == extracted = Raised("PttRecordException", "Invalid price")

\* C14: every Record has a price that is a positive multiple of 100, and a
\* post whose first price token is zero fails with the zero-price failure and
\* yields no Record, also when a later token is not zero.
C14_ZeroFirstTokenFails ==
    Extracted /\ HasTitle
        => /\ extracted.exc = ""
                => extracted.record.price > 0 /\ extracted.record.price % 100 = 0
           /\ PriceTokens(Content) # {} /\ ParseInt(FirstPriceToken(Content)) = 0
                => /\ extracted.record = NoRecord
                   /\ OtherFieldsGood => ZeroPrice

\* The first half alone: the price of a Record is a positive multiple of 100.
C14_PriceIsPositiveHundreds ==
    Extracted /\ extracted.exc = ""
        => extracted.record.price > 0 /\ extracted.record.price % 100 = 0

\* The second half for what the regex matches first: a zero match is the
\* zero-price failure, also when a non-zero match follows.
C14_ZeroFirstMatchFails ==
    Extracted /\ HasTitle /\ OtherFieldsGood
        /\ PriceSearch(Content) # <<>> /\ ParseInt(PriceSearch(Content)) = 0
        => ZeroPrice

\* C15: the name of every Record is non-empty after trimming, also when the
\* title holds nothing after its last closing bracket.
C15_NameIsNotEmpty ==
    Extracted /\ extracted.exc = "" => Strip(extracted.record.name) # <<>>

\* C16 as stated: the title "[Selling][Canon] <sale marker> EOS 5D Mark III"
\* gives the name "EOS 5D Mark III", without the sale marker.
C16_NameWithoutMarker ==
    Extracted /\ HasTitle /\ Title = TitleSellingCanon /\ extracted.exc = ""
        => extracted.record.name = <<"EOS", " ", "5D", " ", "Mark", " ", "III">>

\* C16, amended: that title gives the name "<sale marker> EOS 5D Mark III",
\* all that follows the last closing bracket, trimmed: the sale marker that
\* follows the last bracketed tag is part of the name.
C16_NameKeepsMarker ==
    Extracted /\ HasTitle /\ Title = TitleSellingCanon /\ OtherFieldsGood
            /\ PriceSearch(Content) # <<>> /\ ParseInt(PriceSearch(Content)) > 0
        => /\ extracted.exc = ""
           /\ extracted.record.name =
                <<SaleMarker, " ", "EOS", " ", "5D", " ", "Mark", " ", "III">>

\* A Record built from a post with that title.
C16_Witness ==
    Extracted /\ HasTitle /\ Title = TitleSellingCanon /\ extracted.exc = ""

\* The positions of the closing brackets of a title, of either kind.
Closers(t) == {k \in 1..Len(t) : t[k] \in {"]", FullWidthBracket}}
AfterLastCloser(t) ==
    IF Closers(t) = {} THEN t ELSE SubSeq(t, Max(Closers(t)) + 1, Len(t))

\* C17: the name of a Record is what follows the last closing bracket of the
\* title, of whichever kind comes later, without the surrounding whitespace;
\* it is the whole trimmed title when the title has no closing bracket.
C17_NameFollowsLastBracket ==
    Extracted /\ HasTitle /\ extracted.exc = ""
        => /\ extracted.record.name = Strip(AfterLastCloser(Title))
           /\ Closers(Title) = {} => extracted.record.name = Strip(Title)

\* A Record from a title whose last closing bracket is the full-width one,
\* after an ASCII one.
C17_Witness ==
    /\ Extracted /\ HasTitle /\ extracted.exc = ""
    /\ Title = <<"]", FullWidthBracket, SaleMarker>>
    /\ extracted.record.name = <<SaleMarker>>

\* A Record from a title with no closing bracket, blanks around the text.
C17_WitnessNoBracket ==
    /\ Extracted /\ HasTitle /\ extracted.exc = ""
    /\ Title = <<" ", SaleMarker, " ">>
    /\ extracted.record.name = <<SaleMarker>>

\* ------------------------------------------------------ claims on the loop

\* The post urls the walk of the current page discovered, in the page's order.
Discovered == [k \in DOMAIN FetchPageUrls(site, page_url, TRUE).page_post_urls |->
                 URL_PREFIX \o FetchPageUrls(site, page_url, TRUE).page_post_urls[k]]
TimesAttempted(u) == Cardinality({k \in 1..Len(attempts) : attempts[k] = u})

\* C18: when a page's batch is handed to the save step the queue is empty and
\* every post url the page walk discovered has been attempted exactly once.
C18_EveryUrlAttemptedOnce ==
    pc = "save"
        => /\ post_urls = <<>>
           /\ \A u \in Range(Discovered) : TimesAttempted(u) = 1

\* What holds of the code: the attempts made are the queue's entries, each one
\* once and in order, and the queue is empty when the batch is saved.
C18_EveryQueueEntryAttemptedOnce ==
    pc = "save" => post_urls = <<>> /\ attempts = Discovered

\* A walk over rows without a link does not fail: page 978, whose first row has
\* none, reaches its save with the three linked rows attempted.
C18_RowWithoutLinkSkipped ==
    pc = "save" /\ page_url = Url("978") => Len(attempts) = 3

\* The url the paging control of a listing page leads to.
NextUrl(url) == URL_PREFIX \o FetchPageUrls(site, url, TRUE).next_page_url
Ended == pc \in {"returned", "raised"}
LastSaved == walked[Max({j \in 1..Len(walked) : walked[j] \in saved})]

\* C19, its safety part: a run walks at most PAGES pages, one after another;
\* a run that returns has processed exactly PAGES pages; and when a run has
\* ended the checkpoint is the next-page url of the last page it saved.
C19_RunEndsAtCheckpoint ==
    /\ Len(walked) <= PAGES
    /\ \A j \in 1..(Len(walked) - 1) : walked[j + 1] = NextUrl(walked[j])
    /\ pc = "returned" => Len(walked) = PAGES /\ Range(walked) \subseteq saved
    /\ Ended /\ saved # {} => cache_file = NextUrl(LastSaved)

\* What holds of the code: the same, for every end of a run except a failed
\* write of the checkpoint itself.
C19_RunEndsAtCheckpointUnlessWriteFails ==
    /\ Len(walked) <= PAGES
    /\ \A j \in 1..(Len(walked) - 1) : walked[j + 1] = NextUrl(walked[j])
    /\ pc = "returned" => Len(walked) = PAGES /\ Range(walked) \subseteq saved
    /\ Ended /\ saved # {} /\ raised.at # "cache" => cache_file = NextUrl(LastSaved)

\* A run ends: how far it has got, counted in loop iterations, then in the
\* stage of the iteration, then in queue entries taken, grows with every step
\* it takes, and cannot pass the end of iteration PAGES.
Stage == CASE pc = "walk" -> 0 [] pc = "records" -> 1 [] pc = "save" -> 2
           [] pc = "advance" -> 3 [] pc = "cache" -> 4 [] OTHER -> 5
Progress == <<iter, Stage, Len(attempts)>>
Before(p, q) ==
    \/ p[1] < q[1]
    \/ p[1] = q[1] /\ p[2] < q[2]
    \/ p[1] = q[1] /\ p[2] = q[2] /\ p[3] < q[3]
Advances == Before(Progress, Progress')
C19_EveryStepAdvances ==
    /\ [](pc \in Running => iter < PAGES /\ Len(attempts) <= 3)
    /\ [][(pc \in Running /\ pc' \in Running) => Advances]_vars

\* C20: the checkpoint chains the pages and the runs. The value a completed
\* write_next_page leaves in the cache file is URL_PREFIX and the next-page
\* link of the page just saved, a Cache constructed on it is cached and reads
\* it back unchanged, and it is the url the loop holds for its next iteration;
\* the next iteration walks that url; and the run that follows a run that
\* returned starts at it, the page after the last one of the run before.
C20_CheckpointChainsRuns ==
    /\ [][(pc = "cache" /\ pc' \in {"walk", "returned"})
          => (/\ cache_file' = NextUrl(Last(walked))
              /\ Last(walked) \in saved
              /\ IsCached(CacheInit(cache_file'))
              /\ CacheInit(cache_file') = cache_file'
              /\ page_url' = cache_file')]_vars
    /\ [][(pc = "walk" /\ iter > 0 /\ pc' \in {"records", "raised"})
          => (Last(walked') = cache_file /\ Last(walked') = NextUrl(Last(walked)))]_vars
    /\ [][(pc = "returned" /\ pc' = "walk")
          => (/\ page_url' = cache_file
              /\ page_url' = NextUrl(Last(walked)))]_vars

\* The second run, started after the first one returned, has walked its first
\* page, the page the first run's last checkpoint named.
C20_Witness ==
    /\ prev_end = "returned"
    /\ runs = 2
    /\ pc = "records"
    /\ iter = 0
    /\ walked = <<cache_file>>
    /\ cache_file = Url("976")

====
